---- MODULE Spec2Model ----
(***************************************************************************)
(* Model of boa's parser-side DeclaredNames tracker, the Block parser that *)
(* drives it, the for-in loop executor, the Break node, the class element  *)
(* list parser, and the parse / display round trip.                        *)
(***************************************************************************)
EXTENDS Integers, Sequences, FiniteSets, TLC

\* ------------------------------------------------------------------------
\* Bounds
\* ------------------------------------------------------------------------
\* Deepest stack of saved (lex, var) pairs explored.
MaxDepth == 2
\* Longest token stream handed to the parser.
MaxToks == 5
\* Most enumerable keys of the object a for-in loop runs over.
MaxKeys == 2

\* Names handed to the inserts.
Names == {"a", "b"}
\* Source positions handed to the inserts. A position is only stored and
\* reported, never compared, so two distinct ones show every overwrite.
Pos == {1, 2}

\* ------------------------------------------------------------------------
\* State
\* ------------------------------------------------------------------------
VARIABLES
    lex,      \* DeclaredNames.lex   : name -> position
    var,      \* DeclaredNames.var   : name -> position
    stack,    \* DeclaredNames.stack : sequence of <<lex, var>> pairs
    op,       \* the last call made on the tracker
    res,      \* what that call returned
    toks,     \* Cursor: the token stream being parsed
    cur,      \* Cursor: index of the next token
    frames,   \* the Block::parse activations in progress, outermost first
    pst,      \* the parse: "parsing", or how Script::parse returned
    loop,     \* the ForInLoop node being run and what its expr evaluates to
    state,    \* context.executor(): the InterpreterState
    recs,     \* the environment records ever created, by id
    envs,     \* the environment chain: record ids, the current one last
    pc,       \* where ForInLoop::run is
    iter,     \* the for-in iterator: keys handed out so far
    result,   \* the local `result` of ForInLoop::run
    ret,      \* what ForInLoop::run returned
    visited,  \* the body runs so far: key bound, value produced, state left
    brk,      \* the Break node being run: its optional label
    elems,    \* the class body handed to the lexer, element by element
    strict,   \* cursor.strict_mode()
    constructor,   \* ClassElementList::parse: the local `constructor`
    fields,        \* ClassElementList::parse: the local `fields`
    static_fields, \* ClassElementList::parse: the local `static_fields`
    cret,     \* what ClassElementList::parse returned
    source,   \* the script text handed to parse, as its tokens
    ast,      \* what parse made of it
    shown     \* what formatting that gives, as tokens

trackerVars == <<lex, var, stack>>
parserVars == <<toks, cur, frames, pst>>
forInVars == <<loop, state, recs, envs, pc, iter, result, ret, visited>>
classVars == <<elems, strict, constructor, fields, static_fields, cret>>
fmtVars == <<source, ast, shown>>
nodeVars == <<brk, classVars, fmtVars>>
vars == <<lex, var, stack, op, res, toks, cur, frames, pst,
          loop, state, recs, envs, pc, iter, result, ret, visited, nodeVars>>

\* HashMap::new()
EmptyMap == [n \in {} |-> 0]

\* HashMap::contains_key
contains_key(m, name) == name \in DOMAIN m

\* HashMap::insert: the entry is written whether or not the key was present.
insert(m, name, pos) ==
    [k \in DOMAIN m \cup {name} |-> IF k = name THEN pos ELSE m[k]]

\* HashMap::extend(other): entries of other overwrite entries of m.
extend(m, other) ==
    [k \in DOMAIN m \cup DOMAIN other |->
        IF k \in DOMAIN other THEN other[k] ELSE m[k]]

\* Results of a call.
Ok == [kind |-> "Ok", msg |-> "", name |-> "", pos |-> 0]
SyntaxErr(m, name, pos) == [kind |-> "Err", msg |-> m, name |-> name, pos |-> pos]
Panic == [kind |-> "Panic",
          msg |-> "Called pop without any lex restore to pop!",
          name |-> "", pos |-> 0]
\* The call last made: the method and the name it was given.
NoCall == [call |-> "new", name |-> ""]
Call(c, name) == [call |-> c, name |-> name]

\* check_any_lex that looks at the current level only.
check_any_lex_current(l, st, name) == contains_key(l, name)

\* DeclaredNames::check_any_lex, on explicit arguments.
check_any_lex_in(l, st, name) ==
    \/ contains_key(l, name)
    \/ \E i \in 1..Len(st) : contains_key(st[i][1], name)

\* DeclaredNames::check_any_lex on the current tracker.
check_any_lex(name) == check_any_lex_in(lex, stack, name)

\* DeclaredNames::default
Default ==
    /\ lex = EmptyMap
    /\ var = EmptyMap
    /\ stack = << >>

\* ------------------------------------------------------------------------
\* Tracker operations: the effect on <<lex, var, stack>> and the returned
\* value r.
\* ------------------------------------------------------------------------
\* insert_var_name without the lexical check.
insert_var_name_unchecked(name, pos, r) ==
    /\ var' = insert(var, name, pos)
    /\ r = Ok
    /\ UNCHANGED <<lex, stack>>

\* insert_var_name testing the current lex map only, the stacked levels
\* being left to pop_stack.
insert_var_name_current_level(name, pos, r) ==
    IF contains_key(lex, name)
    THEN /\ r = SyntaxErr("Redeclaration of variable", name, pos)
         /\ UNCHANGED trackerVars
    ELSE /\ var' = insert(var, name, pos)
         /\ r = Ok
         /\ UNCHANGED <<lex, stack>>

insert_var_name(name, pos, r) ==
    IF check_any_lex(name)
    THEN /\ r = SyntaxErr("Redeclaration of variable", name, pos)
         /\ UNCHANGED trackerVars
    ELSE /\ var' = insert(var, name, pos)
         /\ r = Ok
         /\ UNCHANGED <<lex, stack>>

\* insert_lex_name without the test of the current var map.
insert_lex_name_novar(name, pos, r) ==
    /\ lex' = insert(lex, name, pos)
    /\ r = IF contains_key(lex, name)
           THEN SyntaxErr("Redeclaration of variable", name, pos)
           ELSE Ok
    /\ UNCHANGED <<var, stack>>

\* insert_lex_name that also rejects a name of an enclosing lexical level.
insert_lex_name_anylevel(name, pos, r) ==
    IF contains_key(var, name) \/ check_any_lex(name)
    THEN /\ r = SyntaxErr("Redeclaration of variable", name, pos)
         /\ UNCHANGED trackerVars
    ELSE /\ lex' = insert(lex, name, pos)
         /\ r = Ok
         /\ UNCHANGED <<var, stack>>

\* `var.contains_key(name) || lex.insert(name, pos).is_some()`: the insert is
\* skipped when the var test already decided, and otherwise happens even
\* when the name was present.
insert_lex_name(name, pos, r) ==
    IF contains_key(var, name)
    THEN /\ r = SyntaxErr("Redeclaration of variable", name, pos)
         /\ UNCHANGED trackerVars
    ELSE /\ lex' = insert(lex, name, pos)
         /\ r = IF contains_key(lex, name)
                THEN SyntaxErr("Redeclaration of variable", name, pos)
                ELSE Ok
         /\ UNCHANGED <<var, stack>>

push_stack ==
    /\ stack' = Append(stack, <<lex, var>>)
    /\ lex' = EmptyMap
    /\ var' = EmptyMap

\* pop_stack that merges lex the way it merges var.
pop_lex_merge(outer) == extend(lex, outer[1])

\* The value pop_stack restores into lex.
pop_lex(outer) == outer[1]

\* pop_stack that restores var the way it restores lex.
pop_var_restore(outer) == outer[2]

\* The value pop_stack leaves in var.
pop_var(outer) == extend(var, outer[2])

\* pop_stack that reports an empty stack as an ordinary result.
pop_stack_lenient(r) ==
    IF stack # << >>
    THEN /\ stack' = SubSeq(stack, 1, Len(stack) - 1)
         /\ lex' = stack[Len(stack)][1]
         /\ var' = extend(var, stack[Len(stack)][2])
         /\ r = Ok
    ELSE /\ r = Ok
         /\ UNCHANGED trackerVars

\* The loop over var.iter() returns at the first colliding entry it meets;
\* the iteration order of a HashMap is unspecified, so any colliding entry
\* may be the one reported.
pop_stack(r) ==
    IF stack # << >>
    THEN LET outer == stack[Len(stack)]
             rest == SubSeq(stack, 1, Len(stack) - 1)
             newlex == pop_lex(outer)
             newvar == pop_var(outer)
             bad == {n \in DOMAIN newvar : check_any_lex_in(newlex, rest, n)}
         IN  /\ stack' = rest
             /\ lex' = newlex
             /\ var' = newvar
             /\ IF bad = {}
                THEN r = Ok
                ELSE \E n \in bad :
                        r = SyntaxErr("Redeclaration of variable (in pop)",
                                      n, newvar[n])
    ELSE /\ r = Panic
         /\ UNCHANGED trackerVars

\* ------------------------------------------------------------------------
\* The tracker driven through its public interface.
\* ------------------------------------------------------------------------
\* No parse is running: the tracker is driven directly.
NoParse ==
    /\ toks = << >>
    /\ cur = 1
    /\ frames = << >>
    /\ pst = "none"

\* InterpreterState values.
Executing == [kind |-> "Executing", label |-> "None"]
\* Value::undefined()
Undefined == "undefined"

\* No loop is running.
NoLoop ==
    /\ loop = [variable |-> "None", count |-> 0, init |-> FALSE,
               label |-> "None", object |-> "undefined", nkeys |-> 0]
    /\ state = Executing
    /\ recs = << >>
    /\ envs = << >>
    /\ pc = "none"
    /\ iter = 0
    /\ result = Undefined
    /\ ret = [kind |-> "None", value |-> Undefined]
    /\ visited = << >>

\* No other node is being run.
NoCtor == [name |-> "", params |-> << >>]
NoRet == [kind |-> "None", msg |-> "", pos |-> 0, value |-> << >>]
\* No class body is being parsed.
NoClass ==
    /\ elems = << >>
    /\ strict = FALSE
    /\ constructor = NoCtor
    /\ fields = << >>
    /\ static_fields = << >>
    /\ cret = NoRet

\* No script is being formatted.
NoFmt ==
    /\ source = << >>
    /\ ast = [done |-> FALSE, ok |-> FALSE, nodes |-> << >>]
    /\ shown = [done |-> FALSE, toks |-> << >>]

NoNode ==
    /\ brk = "None"
    /\ NoClass
    /\ NoFmt

Init ==
    /\ Default
    /\ op = NoCall
    /\ res = Ok
    /\ NoParse
    /\ NoLoop
    /\ NoNode

\* A panic unwinds the caller: nothing runs after it.
Alive == res.kind # "Panic"

InsertVarName(name, pos) ==
    /\ Alive
    /\ op' = Call("insert_var_name", name)
    /\ insert_var_name(name, pos, res')
    /\ UNCHANGED <<parserVars, forInVars, nodeVars>>

InsertLexName(name, pos) ==
    /\ Alive
    /\ op' = Call("insert_lex_name", name)
    /\ insert_lex_name(name, pos, res')
    /\ UNCHANGED <<parserVars, forInVars, nodeVars>>

PushStack ==
    /\ Alive
    /\ Len(stack) < MaxDepth
    /\ op' = Call("push_stack", "")
    /\ push_stack
    /\ res' = Ok
    /\ UNCHANGED <<parserVars, forInVars, nodeVars>>

PopStack ==
    /\ Alive
    /\ op' = Call("pop_stack", "")
    /\ pop_stack(res')
    /\ UNCHANGED <<parserVars, forInVars, nodeVars>>

Next ==
    \/ \E name \in Names, pos \in Pos : InsertVarName(name, pos)
    \/ \E name \in Names, pos \in Pos : InsertLexName(name, pos)
    \/ PushStack
    \/ PopStack

Spec == Init /\ [][Next]_vars


\* ------------------------------------------------------------------------
\* Properties of the tracker (specification Spec)
\* ------------------------------------------------------------------------
\* The saved lex / var map of stack level i.
LexAt(i) == stack[i][1]
VarAt(i) == stack[i][2]
Top == stack[Len(stack)]

\* Names lexically declared at the current level or at a stacked one.
VisibleLexNames == DOMAIN lex \cup UNION {DOMAIN LexAt(i) : i \in 1..Len(stack)}

C2_InsertLexName ==
    [][op'.call = "insert_lex_name" =>
        LET n == op'.name
            taken == n \in DOMAIN var \/ n \in DOMAIN lex IN
        /\ (res'.kind = "Err") <=> taken
        /\ ~taken => (res' = Ok /\ DOMAIN lex' = DOMAIN lex \cup {n})
        /\ taken => DOMAIN lex' = DOMAIN lex
        /\ UNCHANGED <<var, stack>>]_vars

\* C2 witness: a lexical insert rejected because of a var of the same name at
\* this level, with no lexical declaration of the name anywhere.
C2_Witness ==
    /\ op.call = "insert_lex_name"
    /\ res.kind = "Err"
    /\ op.name \in DOMAIN var
    /\ op.name \notin VisibleLexNames

\* The tracker after push_stack, insert_lex_name(n), push_stack.
InInnerBlockOfLet(n) ==
    /\ Len(stack) = 2
    /\ stack[1] = <<EmptyMap, EmptyMap>>
    /\ DOMAIN LexAt(2) = {n}
    /\ VarAt(2) = EmptyMap
    /\ lex = EmptyMap

\* C3: in `{ let a; { var a; } }` the call insert_var_name(a) made in the
\* inner block is accepted (the error is left to pop_stack).
C3_VarAcceptedInInnerBlock ==
    \A n \in Names :
        (op = Call("insert_var_name", n) /\ InInnerBlockOfLet(n)) => res = Ok

\* C4: lex is restored verbatim. A push saves the current lex on top of an
\* untouched stack, no insert touches the stack, and a pop sets lex to the
\* saved top and removes exactly that level; so the lex after a pop is the
\* lex before the matching push.
C4_LexRestored ==
    [][/\ op'.call = "push_stack" =>
            /\ Len(stack') = Len(stack) + 1
            /\ SubSeq(stack', 1, Len(stack)) = stack
            /\ stack'[Len(stack')][1] = lex
       /\ op'.call \in {"insert_var_name", "insert_lex_name"} => stack' = stack
       /\ (op'.call = "pop_stack" /\ stack # << >>) =>
            /\ lex' = Top[1]
            /\ stack' = SubSeq(stack, 1, Len(stack) - 1)]_vars

\* C4 witness: a pop that brought back a non-empty outer lex map.
C4_Witness ==
    /\ op.call = "pop_stack"
    /\ res = Ok
    /\ lex # EmptyMap

\* C5: right after a pop_stack the names of the current var map are the
\* names of the inner var map united with those of the saved outer var map.
C5_VarMerged ==
    [][(op'.call = "pop_stack" /\ stack # << >>) =>
            DOMAIN var' = DOMAIN var \cup DOMAIN Top[2]]_vars

\* C5 witness: a pop back to the outermost level that holds two var names.
C5_Witness ==
    /\ op.call = "pop_stack"
    /\ res = Ok
    /\ stack = << >>
    /\ DOMAIN var = Names

\* C6: a lexical insert right after push_stack succeeds, a lexical insert of
\* a name not declared at the current level succeeds whatever the enclosing
\* levels hold, and every pop_stack with a level to pop returns Ok.
C6_ShadowingLegal ==
    [][/\ (op.call = "push_stack" /\ op'.call = "insert_lex_name") => res' = Ok
       /\ (op'.call = "insert_lex_name" /\ op'.name \notin DOMAIN lex \cup DOMAIN var)
             => res' = Ok
       /\ (op'.call = "pop_stack" /\ stack # << >>) => res' = Ok]_vars

\* C6 witness: x declared lexically at two nested levels, the inner insert
\* accepted.
C6_Witness ==
    /\ op.call = "insert_lex_name"
    /\ res = Ok
    /\ Len(stack) = 2
    /\ op.name \in DOMAIN lex
    /\ op.name \in DOMAIN LexAt(2)

\* C7 as stated: no name of the current lex map is in the var map of the
\* same level or of a stacked level.
C7_NoLexInAnyVar ==
    \A n \in DOMAIN lex :
        /\ n \notin DOMAIN var
        /\ \A i \in 1..Len(stack) : n \notin DOMAIN VarAt(i)

\* C7 amended: no name of the current lex map is in the var map of the same
\* level.
C7_NoLexInCurrentVar == DOMAIN lex \cap DOMAIN var = {}

\* C7 witness: lexical and var names side by side at one level, the lexical
\* one shadowing a var of an enclosing level.
C7_Witness ==
    /\ lex # EmptyMap
    /\ var # EmptyMap
    /\ \E n \in DOMAIN lex, i \in 1..Len(stack) : n \in DOMAIN VarAt(i)

Tok(kind, name) == [kind |-> kind, name |-> name]
OpenBlock == Tok("OpenBlock", "")
CloseBlock == Tok("CloseBlock", "")
Tokens ==
    {OpenBlock, CloseBlock}
        \cup {Tok("Let", n) : n \in Names} \cup {Tok("Var", n) : n \in Names}
TokenStreams == UNION {[1..n -> Tokens] : n \in 0..MaxToks}

\* cursor.peek(0): the next token, or None at the end of the input.
None == Tok("None", "")
peek == IF cur <= Len(toks) THEN toks[cur] ELSE None

Parsing == pst = "parsing"
\* The innermost Block::parse activation.
Frame == frames[Len(frames)]
\* The activations left once the innermost one has returned.
CallerFrames == SubSeq(frames, 1, Len(frames) - 1)
\* A statement list is being parsed: the script's, or the one of a block.
InStatementList == IF frames = << >> THEN TRUE ELSE Frame.pc = "stmts"

\* How a tracker result surfaces from Script::parse once `?` propagated it.
Propagate(r) == IF r.kind = "Err" THEN "SyntaxError" ELSE "Panic"

BlockInit ==
    /\ Default
    /\ op = NoCall
    /\ res = Ok
    /\ toks \in TokenStreams
    /\ cur = 1
    /\ frames = << >>
    /\ pst = "parsing"
    /\ NoLoop
    /\ NoNode

\* A `let n;` statement: the name is declared lexically at the token's
\* position; an error ends the parse.
LetDeclaration ==
    /\ Parsing
    /\ InStatementList
    /\ peek.kind = "Let"
    /\ op' = Call("insert_lex_name", peek.name)
    /\ insert_lex_name(peek.name, cur, res')
    /\ IF res'.kind = "Ok"
       THEN cur' = cur + 1 /\ UNCHANGED <<frames, pst>>
       ELSE pst' = Propagate(res') /\ frames' = << >> /\ UNCHANGED cur
    /\ UNCHANGED toks
    /\ UNCHANGED <<forInVars, nodeVars>>

\* A `var n;` statement.
VarDeclaration ==
    /\ Parsing
    /\ InStatementList
    /\ peek.kind = "Var"
    /\ op' = Call("insert_var_name", peek.name)
    /\ insert_var_name(peek.name, cur, res')
    /\ IF res'.kind = "Ok"
       THEN cur' = cur + 1 /\ UNCHANGED <<frames, pst>>
       ELSE pst' = Propagate(res') /\ frames' = << >> /\ UNCHANGED cur
    /\ UNCHANGED toks
    /\ UNCHANGED <<forInVars, nodeVars>>

\* Block::parse, entry: push_stack, then expect `{` (the statement parser
\* calls Block::parse on a `{`, which the expect consumes). The activation
\* remembers the stack depth and the lex map it was entered with.
BlockEnter ==
    /\ Parsing
    /\ InStatementList
    /\ peek = OpenBlock
    /\ op' = Call("push_stack", "")
    /\ push_stack
    /\ res' = Ok
    /\ cur' = cur + 1
    /\ frames' = Append(frames,
                        [pc |-> "peek", depth0 |-> Len(stack), lex0 |-> lex])
    /\ UNCHANGED <<toks, pst>>
    /\ UNCHANGED <<forInVars, nodeVars>>

\* Block::parse, the peek after `{` sees `}`: the token is consumed and the
\* empty block returned.
BlockEmpty ==
    /\ Parsing
    /\ frames # << >>
    /\ Frame.pc = "peek"
    /\ peek = CloseBlock
    /\ cur' = cur + 1
    /\ frames' = CallerFrames
    /\ UNCHANGED <<trackerVars, op, res, toks, pst>>
    /\ UNCHANGED <<forInVars, nodeVars>>

\* Block::parse, the peek sees anything else (or the end of the input): the
\* statement list of the block is parsed.
BlockStatements ==
    /\ Parsing
    /\ frames # << >>
    /\ Frame.pc = "peek"
    /\ peek # CloseBlock
    /\ frames' = [frames EXCEPT ![Len(frames)].pc = "stmts"]
    /\ UNCHANGED <<trackerVars, op, res, toks, cur, pst>>
    /\ UNCHANGED <<forInVars, nodeVars>>

\* Block::parse, after the statement list stopped at `}`: expect `}`, then
\* pop_stack, whose error is propagated.
BlockClose ==
    /\ Parsing
    /\ frames # << >>
    /\ Frame.pc = "stmts"
    /\ peek = CloseBlock
    /\ cur' = cur + 1
    /\ op' = Call("pop_stack", "")
    /\ pop_stack(res')
    /\ IF res'.kind = "Ok"
       THEN frames' = CallerFrames /\ UNCHANGED pst
       ELSE pst' = Propagate(res') /\ frames' = << >>
    /\ UNCHANGED toks
    /\ UNCHANGED <<forInVars, nodeVars>>

\* Block::parse, after the statement list stopped at the end of the input:
\* expect `}` fails.
BlockAbruptEnd ==
    /\ Parsing
    /\ frames # << >>
    /\ Frame.pc = "stmts"
    /\ peek = None
    /\ pst' = "AbruptEnd"
    /\ frames' = << >>
    /\ UNCHANGED <<trackerVars, op, res, toks, cur>>
    /\ UNCHANGED <<forInVars, nodeVars>>

\* Script::parse: the statement list of the script reached the end of input.
ScriptEnd ==
    /\ Parsing
    /\ frames = << >>
    /\ peek = None
    /\ pst' = "Ok"
    /\ UNCHANGED <<trackerVars, op, res, toks, cur, frames>>
    /\ UNCHANGED <<forInVars, nodeVars>>

\* A `}` where the script's statement list wants a statement.
ScriptUnexpectedClose ==
    /\ Parsing
    /\ frames = << >>
    /\ peek = CloseBlock
    /\ pst' = "Expected"
    /\ UNCHANGED <<trackerVars, op, res, toks, cur, frames>>
    /\ UNCHANGED <<forInVars, nodeVars>>

BlockNext ==
    \/ LetDeclaration
    \/ VarDeclaration
    \/ BlockEnter
    \/ BlockEmpty
    \/ BlockStatements
    \/ BlockClose
    \/ BlockAbruptEnd
    \/ ScriptEnd
    \/ ScriptUnexpectedClose

SpecBlock == BlockInit /\ [][BlockNext]_vars

\* C9: when a Block parse returns successfully, the tracker's stack is as
\* deep as when that parse was entered and the current lex map is the one it
\* was entered with.
C9_BlockPairsPushPop ==
    [][(Len(frames') = Len(frames) - 1 /\ pst' = "parsing") =>
            /\ Len(stack') = Frame.depth0
            /\ lex' = Frame.lex0]_vars

\* ------------------------------------------------------------------------
\* ForInLoop::run (specification SpecForIn)
\* ------------------------------------------------------------------------
\* Labels a break or continue may carry; "None" is Option::None.
Labels == {"l", "m"}
OptLabels == {"None"} \cup Labels

Break(label) == [kind |-> "Break", label |-> label]
Continue(label) == [kind |-> "Continue", label |-> label]
ReturnState == [kind |-> "Return", label |-> "None"]
ErrorState == [kind |-> "Error", label |-> "None"]
\* The states a body run may leave behind.
BodyStates ==
    {Executing, ReturnState, ErrorState}
        \cup {Break(l) : l \in OptLabels} \cup {Continue(l) : l \in OptLabels}
\* The values a body run may produce.
BodyValues == {"v1", "v2"}

\* The name the head of the loop binds, and the i-th enumerated key.
VarName == "x"
Key(i) == "k" \o ToString(i)

\* The loop heads: a bare identifier, a var / let / const list of one or two
\* declarations (the single one with or without an initializer), an
\* assignment, anything else.
Heads ==
    {[variable |-> v, count |-> 1, init |-> FALSE] :
        v \in {"Identifier", "Assign", "Other"}}
    \cup {[variable |-> v, count |-> 1, init |-> i] :
        v \in {"VarDeclList", "LetDeclList", "ConstDeclList"}, i \in BOOLEAN}
    \cup {[variable |-> v, count |-> 2, init |-> FALSE] :
        v \in {"VarDeclList", "LetDeclList", "ConstDeclList"}}

\* What the loop runs over: null, undefined, or an object with n keys.
Sources ==
    {[object |-> o, nkeys |-> 0] : o \in {"null", "undefined"}}
    \cup {[object |-> "object", nkeys |-> n] : n \in 0..MaxKeys}

Loops ==
    {[variable |-> h.variable, count |-> h.count, init |-> h.init,
      label |-> l, object |-> src.object, nkeys |-> src.nkeys] :
        h \in Heads, l \in {"None", "l"}, src \in Sources}

\* Environment records map a name to its binding.
Binding(v, mutable) == [value |-> v, mutable |-> mutable]
EmptyRecord == [n \in {} |-> Binding(Undefined, TRUE)]
\* The function environment the loop runs in: x not declared, declared
\* mutable, or declared const.
EntryRecords ==
    {EmptyRecord}
        \cup {[n \in {VarName} |-> Binding("old", m)] : m \in BOOLEAN}

\* One run of the body: the key it ran with, its value, the state it left.
Run(key, v, st) == [key |-> key, value |-> v, state |-> st]
\* The body returned an error instead of a value.
Thrown == [kind |-> "Thrown", label |-> "None"]

RetOk(v) == [kind |-> "Ok", value |-> v]
RetErr(msg) == [kind |-> "Err", value |-> msg]

\* context.has_binding: the name is bound somewhere along the chain es.
has_binding(rs, es, name) ==
    \E i \in 1..Len(es) : name \in DOMAIN rs[es[i]]

\* The innermost record of the chain that binds name.
holder(rs, es, name) ==
    es[CHOOSE i \in 1..Len(es) :
        /\ name \in DOMAIN rs[es[i]]
        /\ \A j \in (i + 1)..Len(es) : name \notin DOMAIN rs[es[j]]]

\* context.set_mutable_binding(name, v, true): a const binding refuses.
set_mutable_binding(rs, es, name, v) ==
    LET h == holder(rs, es, name) IN
    IF rs[h][name].mutable
    THEN [ok |-> TRUE, recs |-> [rs EXCEPT ![h] = insert(@, name, Binding(v, TRUE))],
          err |-> ""]
    ELSE [ok |-> FALSE, recs |-> rs, err |-> "TypeError: assignment to constant"]

\* context.create_*_binding followed by initialize_binding. Function scope
\* is the record the chain starts with, Block scope the current record.
create_binding(rs, es, name, mutable, scope, v) ==
    LET id == IF scope = "Function" THEN es[1] ELSE es[Len(es)] IN
    [ok |-> TRUE, recs |-> [rs EXCEPT ![id] = insert(@, name, Binding(v, mutable))],
     err |-> ""]

throw_syntax_error(rs, msg) == [ok |-> FALSE, recs |-> rs, err |-> msg]

InitializerMsg ==
    "a declaration in the head of a for-in loop can't have an initializer"
OnlyOneMsg == "only one variable can be declared in the head of a for-in loop"
UnknownMsg == "unknown left hand side in head of for-in loop"

\* bind with the let / const binding created Function-scoped.
bind_function_scoped(rs, es, v) ==
    LET reuse_or_create ==
            IF has_binding(rs, es, VarName)
            THEN set_mutable_binding(rs, es, VarName, v)
            ELSE create_binding(rs, es, VarName, TRUE, "Function", v)
    IN
    CASE loop.variable = "Identifier" -> reuse_or_create
      [] loop.variable = "VarDeclList" ->
            IF loop.count # 1 THEN throw_syntax_error(rs, OnlyOneMsg)
            ELSE IF loop.init THEN throw_syntax_error(rs, InitializerMsg)
            ELSE reuse_or_create
      [] loop.variable = "LetDeclList" ->
            IF loop.count # 1 THEN throw_syntax_error(rs, OnlyOneMsg)
            ELSE IF loop.init THEN throw_syntax_error(rs, InitializerMsg)
            ELSE create_binding(rs, es, VarName, TRUE, "Function", v)
      [] loop.variable = "ConstDeclList" ->
            IF loop.count # 1 THEN throw_syntax_error(rs, OnlyOneMsg)
            ELSE IF loop.init THEN throw_syntax_error(rs, InitializerMsg)
            ELSE create_binding(rs, es, VarName, FALSE, "Function", v)
      [] loop.variable = "Assign" -> throw_syntax_error(rs, InitializerMsg)
      [] OTHER -> throw_syntax_error(rs, UnknownMsg)

\* `match self.variable()`: binds the key v with the pushed chain es.
bind(rs, es, v) ==
    LET reuse_or_create ==
            IF has_binding(rs, es, VarName)
            THEN set_mutable_binding(rs, es, VarName, v)
            ELSE create_binding(rs, es, VarName, TRUE, "Function", v)
    IN
    CASE loop.variable = "Identifier" -> reuse_or_create
      [] loop.variable = "VarDeclList" ->
            IF loop.count # 1 THEN throw_syntax_error(rs, OnlyOneMsg)
            ELSE IF loop.init THEN throw_syntax_error(rs, InitializerMsg)
            ELSE reuse_or_create
      [] loop.variable = "LetDeclList" ->
            IF loop.count # 1 THEN throw_syntax_error(rs, OnlyOneMsg)
            ELSE IF loop.init THEN throw_syntax_error(rs, InitializerMsg)
            ELSE create_binding(rs, es, VarName, TRUE, "Block", v)
      [] loop.variable = "ConstDeclList" ->
            IF loop.count # 1 THEN throw_syntax_error(rs, OnlyOneMsg)
            ELSE IF loop.init THEN throw_syntax_error(rs, InitializerMsg)
            ELSE create_binding(rs, es, VarName, FALSE, "Block", v)
      [] loop.variable = "Assign" -> throw_syntax_error(rs, InitializerMsg)
      [] OTHER -> throw_syntax_error(rs, UnknownMsg)

\* handle_state_with_labels!: TRUE when the label of the break / continue is
\* absent or is the loop's own label, so that the state is reset to
\* Executing; FALSE when the macro breaks out of the loop, state untouched.
handle_state_with_labels(label) ==
    label = "None" \/ (loop.label # "None" /\ loop.label = label)

\* context.pop_environment
pop_environment(es) == SubSeq(es, 1, Len(es) - 1)

ForInInit ==
    /\ Default
    /\ op = NoCall
    /\ res = Ok
    /\ NoParse
    /\ loop \in Loops
    /\ state = Executing
    /\ \E r \in EntryRecords : recs = <<r>>
    /\ envs = <<1>>
    /\ pc = "start"
    /\ iter = 0
    /\ result = Undefined
    /\ ret = [kind |-> "None", value |-> Undefined]
    /\ visited = << >>
    /\ NoNode

otherVars == <<trackerVars, op, res, parserVars, nodeVars>>

\* ForInStart without the null / undefined test.
ForInStart_no_null_check ==
    /\ pc = "start"
    /\ pc' = "loop"
    /\ UNCHANGED <<ret, loop, state, recs, envs, iter, result, visited, otherVars>>

\* Lines 81-96: the source expression is evaluated; null and undefined end
\* the run, anything else gets a for-in iterator.
ForInStart ==
    /\ pc = "start"
    /\ IF loop.object \in {"null", "undefined"}
       THEN pc' = "done" /\ ret' = RetOk(result)
       ELSE pc' = "loop" /\ UNCHANGED ret
    /\ UNCHANGED <<loop, state, recs, envs, iter, result, visited, otherVars>>

\* Lines 97-193: a record is pushed and the iterator advanced; when it is
\* done the record is popped and the loop left, otherwise the key is bound
\* as the head says (an error returns from run at once).
ForInNext ==
    /\ pc = "loop"
    /\ LET id == Len(recs) + 1
           rs == Append(recs, EmptyRecord)
           es == Append(envs, id)
       IN  IF iter = loop.nkeys
           THEN /\ recs' = rs
                /\ envs' = pop_environment(es)
                /\ pc' = "done"
                /\ ret' = RetOk(result)
                /\ UNCHANGED iter
           ELSE LET b == bind(rs, es, Key(iter + 1)) IN
                /\ iter' = iter + 1
                /\ recs' = b.recs
                /\ envs' = es
                /\ IF b.ok
                   THEN pc' = "body" /\ UNCHANGED ret
                   ELSE pc' = "done" /\ ret' = RetErr(b.err)
    /\ UNCHANGED <<loop, state, result, visited, otherVars>>

\* Line 195, `self.body().run(context)?` fails: run returns the error.
ForInBodyThrows ==
    /\ pc = "body"
    /\ visited' = Append(visited, Run(Key(iter), Undefined, Thrown))
    /\ pc' = "done"
    /\ ret' = RetErr("thrown by the body")
    /\ UNCHANGED <<loop, state, recs, envs, iter, result, otherVars>>

\* The iteration ends normally: the record is popped and the loop goes on.
next_iteration(st) ==
    /\ state' = st
    /\ envs' = pop_environment(envs)
    /\ pc' = "loop"
    /\ UNCHANGED ret

\* run returns Ok(v) from inside the loop, leaving the state st.
leave_loop(v, st) ==
    /\ state' = st
    /\ pc' = "done"
    /\ ret' = RetOk(v)
    /\ UNCHANGED envs

\* The Break arm without its trailing `break`.
break_arm_falls_through(v, st) ==
    IF handle_state_with_labels(st.label)
    THEN next_iteration(Executing)
    ELSE leave_loop(v, st)

\* Lines 197-200: the macro, then `break`.
break_arm(v, st) ==
    IF handle_state_with_labels(st.label)
    THEN leave_loop(v, Executing)
    ELSE leave_loop(v, st)

\* The Continue arm doing nothing.
continue_arm_ignored(v, st) == next_iteration(st)

\* Lines 201-203: the macro, then on to line 211.
continue_arm(v, st) ==
    IF handle_state_with_labels(st.label)
    THEN next_iteration(Executing)
    ELSE leave_loop(v, st)

\* The Return arm doing nothing.
return_arm_ignored(v, st) == next_iteration(st)

\* Line 204: `return Ok(result)`.
return_arm(v, st) == leave_loop(v, st)

\* The Executing arm without line 211.
executing_arm_no_pop(v, st) ==
    /\ state' = st
    /\ pc' = "loop"
    /\ UNCHANGED <<envs, ret>>

\* Lines 205-211: Executing (and Error): nothing, then pop_environment.
executing_arm(v, st) == next_iteration(st)

\* Lines 195-212: the body produced v and left the state st.
ForInBody(v, st) ==
    /\ pc = "body"
    /\ visited' = Append(visited, Run(Key(iter), v, st))
    /\ result' = v
    /\ CASE st.kind = "Break" -> break_arm(v, st)
         [] st.kind = "Continue" -> continue_arm(v, st)
         [] st.kind = "Return" -> return_arm(v, st)
         [] OTHER -> executing_arm(v, st)
    /\ UNCHANGED <<loop, recs, iter, otherVars>>

ForInNextStep ==
    \/ ForInStart
    \/ ForInNext
    \/ ForInBodyThrows
    \/ \E v \in BodyValues, st \in BodyStates : ForInBody(v, st)

SpecForIn == ForInInit /\ [][ForInNextStep]_vars

\* The environment chain ForInLoop::run was entered with.
EnvsAtEntry == <<1>>

\* C10: however a run that started enumerating returns normally (iterator
\* exhausted, break, break or continue for another label, return), the
\* environment chain is the one the loop was entered with.
C10_ScopesDiscarded ==
    (pc = "done" /\ ret.kind = "Ok" /\ loop.object = "object")
        => envs = EnvsAtEntry

\* The run keeps stepping: every call ForInLoop::run makes returns.
SpecForInFair == SpecForIn /\ WF_vars(ForInNextStep)

\* The label l is absent or is the loop's own label.
Own(l) == l = "None" \/ l = loop.label

\* C11: a body run that leaves Break(l) is the last one: run has returned
\* that run's value without advancing the iterator, and the state is
\* Executing when l is absent or the loop's own label, Break(l) otherwise.
C11_BreakStops ==
    \A i \in 1..Len(visited) :
        visited[i].state.kind = "Break" =>
            /\ i = Len(visited)
            /\ pc = "done"
            /\ iter = i
            /\ ret = RetOk(visited[i].value)
            /\ state = IF Own(visited[i].state.label)
                       THEN Executing ELSE visited[i].state

\* C11 witness: a break to the loop's own label on the first of two keys.
C11_Witness ==
    /\ pc = "done"
    /\ loop.nkeys = 2
    /\ Len(visited) = 1
    /\ visited[1].state = Break("l")
    /\ loop.label = "l"
    /\ state = Executing

\* A body run that left Continue(l), l absent or the loop's own label.
OwnContinue(i) ==
    /\ i <= Len(visited)
    /\ visited[i].state.kind = "Continue"
    /\ Own(visited[i].state.label)

\* C12: after a body run that leaves Continue(l) with l absent or the loop's
\* own label the state is Executing and the loop ends only when the keys are
\* exhausted, the next key being the one the next body run gets; when keys
\* remain that next run does happen. With any other l the run was the last
\* one: run has returned and the state is still Continue(l).
C12_ContinueGoesOn ==
    /\ [](\A i \in 1..Len(visited) :
            visited[i].state.kind = "Continue" =>
                IF Own(visited[i].state.label)
                THEN /\ i = Len(visited) =>
                            /\ state = Executing
                            /\ pc = "done" =>
                                    (iter = loop.nkeys /\ ret.kind = "Ok")
                     /\ i < Len(visited) => visited[i + 1].key = Key(i + 1)
                ELSE /\ i = Len(visited)
                     /\ pc = "done"
                     /\ iter = i
                     /\ state = visited[i].state)
    /\ \A i \in 1..MaxKeys :
            (OwnContinue(i) /\ i < loop.nkeys) ~> (Len(visited) > i)

\* C12 witness: the second key visited after a continue on the first.
C12_Witness ==
    /\ Len(visited) = 2
    /\ OwnContinue(1)
    /\ visited[2].key = Key(2)

\* C13: a body run that leaves Return is the last one: run has returned that
\* run's value, the iterator is where it was, the state is still Return.
C13_ReturnStops ==
    \A i \in 1..Len(visited) :
        visited[i].state.kind = "Return" =>
            /\ i = Len(visited)
            /\ pc = "done"
            /\ iter = i
            /\ ret = RetOk(visited[i].value)
            /\ state = ReturnState

\* C13 witness: a return on the first of two keys.
C13_Witness ==
    /\ pc = "done"
    /\ loop.nkeys = 2
    /\ Len(visited) = 1
    /\ visited[1].state = ReturnState

\* Every body run so far left the state Executing.
AllExecuting == \A i \in 1..Len(visited) : visited[i].state = Executing

\* C14: while every body run leaves Executing, the i-th run gets the i-th
\* key and runs with a record pushed for this iteration alone on top of the
\* entry chain; when run returns Ok the body has run once per key, the value
\* is the last run's (undefined without keys), the state is Executing and the
\* chain is the entry chain (one record was pushed per pass, the last pass
\* finding the iterator done).
C14_RunsOncePerKey ==
    (loop.object = "object" /\ AllExecuting) =>
        /\ \A i \in 1..Len(visited) : visited[i].key = Key(i)
        /\ pc = "body" =>
                /\ Len(visited) = iter - 1
                /\ Len(recs) = iter + 1
                /\ envs = Append(EnvsAtEntry, Len(recs))
        /\ (pc = "done" /\ ret.kind = "Ok") =>
                /\ Len(visited) = loop.nkeys
                /\ ret.value = IF loop.nkeys = 0 THEN Undefined
                               ELSE visited[loop.nkeys].value
                /\ state = Executing
                /\ envs = EnvsAtEntry
                /\ Len(recs) = loop.nkeys + 2

\* C14 witness: two keys, two runs, normal return.
C14_Witness ==
    /\ pc = "done"
    /\ ret.kind = "Ok"
    /\ loop.nkeys = 2
    /\ Len(visited) = 2
    /\ AllExecuting

\* C15: with a null or undefined source the whole run is one step that
\* returns undefined and changes nothing else.
C15_NullSourceNoOp ==
    [][(pc = "start" /\ loop.object \in {"null", "undefined"}) =>
            /\ pc' = "done"
            /\ ret' = RetOk(Undefined)
            /\ UNCHANGED <<state, recs, envs, iter, visited>>]_vars

\* C15 witness: the run over null has returned.
C15_Witness ==
    /\ pc = "done"
    /\ loop.object = "null"
    /\ ret = RetOk(Undefined)
    /\ visited = << >>

\* A head ForInLoop::run refuses: more than one declaration, an initializer,
\* an assignment.
IllegalHead == loop.count # 1 \/ loop.init \/ loop.variable = "Assign"

\* C16: a run with an illegal head returns a syntax error (the "only one
\* variable" one for a list of several declarations) and never runs the
\* body, whatever the source is.
C16_IllegalHeadRejected ==
    (pc = "done" /\ IllegalHead) =>
        /\ ret.kind = "Err"
        /\ ret.value = IF loop.count # 1 THEN OnlyOneMsg ELSE InitializerMsg
        /\ visited = << >>

\* ------------------------------------------------------------------------
\* Break::run (specification SpecBreak)
\* ------------------------------------------------------------------------
\* The environments a Break node may be run in: one record, or a block
\* record on top of it.
BreakRecords ==
    {<<r>> : r \in EntryRecords}
        \cup {<<r, q>> : r \in EntryRecords, q \in EntryRecords}

\* A context in any interpreter state, about to run a Break node.
BreakInit ==
    /\ Default
    /\ op = NoCall
    /\ res = Ok
    /\ NoParse
    /\ loop = [variable |-> "None", count |-> 0, init |-> FALSE,
               label |-> "None", object |-> "undefined", nkeys |-> 0]
    /\ state \in BodyStates
    /\ recs \in BreakRecords
    /\ envs = [i \in 1..Len(recs) |-> i]
    /\ pc = "start"
    /\ iter = 0
    /\ result = Undefined
    /\ ret = [kind |-> "None", value |-> Undefined]
    /\ visited = << >>
    /\ brk \in OptLabels
    /\ NoClass
    /\ NoFmt

\* Break::run with the label left out of the state it sets.
BreakRun_unlabelled ==
    /\ pc = "start"
    /\ state' = Break("None")
    /\ ret' = RetOk(Undefined)
    /\ pc' = "done"
    /\ UNCHANGED <<loop, recs, envs, iter, result, visited, otherVars>>

\* Break::run: set the interpreter state to Break(label), yield undefined.
BreakRun ==
    /\ pc = "start"
    /\ state' = Break(brk)
    /\ ret' = RetOk(Undefined)
    /\ pc' = "done"
    /\ UNCHANGED <<loop, recs, envs, iter, result, visited, otherVars>>

BreakNext ==
    BreakRun

SpecBreak == BreakInit /\ [][BreakNext]_vars

\* C17: running a Break node sets the interpreter state to Break(label),
\* label being the node's own optional label, whatever the state was
\* before; the run yields undefined and changes nothing else.
C17_BreakSetsState ==
    [][pc = "start" =>
            /\ state' = Break(brk)
            /\ ret' = RetOk(Undefined)
            /\ UNCHANGED <<recs, envs, brk, trackerVars>>]_vars

\* The run of break_node/tests.rs check_post_state: a labelled Break run in
\* a fresh context.
C17_Witness ==
    /\ pc = "done"
    /\ brk = "l"
    /\ state = Break("l")
    /\ ret = RetOk(Undefined)

\* ------------------------------------------------------------------------
\* ClassElementList::parse (specification SpecClass)
\* ------------------------------------------------------------------------
\* The longest class body, in elements.
MaxElems == 2

ClassNames == {"constructor", "m"}
\* A class element as written: `static`?, `get` / `set`?, a name, then a
\* method without parameters, a method with a rest parameter, a field with
\* an initializer, or something that is neither.
ClassElems ==
    [static : BOOLEAN, accessor : {"", "Get", "Set"}, name : ClassNames,
     form : {"method", "rest", "field", "other"}]

Identifier(n) == Tok("Identifier", n)
OpenParen == Tok("OpenParen", "")
CloseParen == Tok("CloseParen", "")
Assign == Tok("Assign", "")
Semicolon == Tok("Semicolon", "")
RestParam == Tok("Rest", "r")
ExprTok == Tok("Expr", "")

\* The lexer's tokens for one element, and for a list of them.
ElemToks(e) ==
    (IF e.static THEN <<Tok("Static", "")>> ELSE << >>)
        \o (IF e.accessor = "" THEN << >> ELSE <<Tok(e.accessor, "")>>)
        \o <<Identifier(e.name)>>
        \o (CASE e.form = "method" ->
                    <<OpenParen, CloseParen, OpenBlock, CloseBlock>>
              [] e.form = "rest" ->
                    <<OpenParen, RestParam, CloseParen, OpenBlock, CloseBlock>>
              [] e.form = "field" -> <<Assign, ExprTok, Semicolon>>
              [] OTHER -> <<Semicolon>>)
RECURSIVE Lex(_)
Lex(es) == IF es = << >> THEN << >> ELSE ElemToks(Head(es)) \o Lex(Tail(es))

\* cursor.peek(i - cur): the token at index i, or None past the end.
at(i) == IF i <= Len(toks) THEN toks[i] ELSE None

\* ParseError values; Ok carries the Output tuple.
AbruptEnd == [kind |-> "Err", msg |-> "AbruptEnd", pos |-> 0, value |-> << >>]
General(m, position) == [kind |-> "Err", msg |-> m, pos |-> position, value |-> << >>]
Expected(position) == [kind |-> "Err", msg |-> "Expected", pos |-> position, value |-> << >>]
ClassOk(c, fs, sfs) == [kind |-> "Ok", msg |-> "", pos |-> 0, value |-> <<c, fs, sfs>>]
MultipleMsg == "Cannot have multiple constructors on an object"
SpreadMsg == "Cannot have spread parameters on a class method in strict mode"
\* (the source quotes the word constructor in the message)
CtorFieldMsg == "Fields cannot be named constructor"

\* cursor.expect(tok) at index i: the error it gives when tok is not there.
Unexpected(i) == IF at(i) = None THEN AbruptEnd ELSE Expected(i)

\* FunctionDecl::new and the ClassField variants the parser builds.
FunctionDecl(name, params) == [name |-> name, params |-> params]
Method(name, params) ==
    [kind |-> "Method", name |-> name, params |-> params, value |-> ""]
Field(name, value) ==
    [kind |-> "Field", name |-> name, params |-> << >>, value |-> value]

\* What one pass of the loop comes to: an error, or the cursor after the
\* element, the constructor and the field it gave (at most one), and whether
\* `static` preceded it.
Failed(e) ==
    [ret |-> e, cur |-> 0, constructor |-> NoCtor, field |-> << >>,
     static |-> FALSE]
Parsed(c, ctor, f, st) ==
    [ret |-> NoRet, cur |-> c, constructor |-> ctor, field |-> f, static |-> st]

\* FormalParameters::parse: the parameters from index c up to the `)`.
RECURSIVE FormalParameters(_)
FormalParameters(c) ==
    IF at(c).kind \in {"Param", "Rest"}
    THEN <<at(c)>> \o FormalParameters(c + 1)
    ELSE << >>

is_rest_param(param) == param.kind = "Rest"

\* The duplicate test left out.
duplicate_constructor_unchecked(name, ctor) == FALSE

\* A second element named `constructor`.
duplicate_constructor(name, ctor) == name = "constructor" /\ ctor # NoCtor

\* A method definition; c is the index after its `(`.
method_definition(c, name, ctor, st) ==
    LET params == FormalParameters(c)
        c1 == c + Len(params)
    IN  IF at(c) = None THEN Failed(AbruptEnd)
        ELSE IF params # << >> /\ strict /\ is_rest_param(params[Len(params)])
        THEN Failed(General(SpreadMsg, c))
        ELSE IF at(c1) # CloseParen THEN Failed(Unexpected(c1))
        ELSE IF at(c1 + 1) # OpenBlock THEN Failed(Unexpected(c1 + 1))
        ELSE IF at(c1 + 2) # CloseBlock THEN Failed(Unexpected(c1 + 2))
        ELSE IF name = "constructor"
        THEN Parsed(c1 + 3, FunctionDecl(name, params), << >>, st)
        ELSE Parsed(c1 + 3, ctor, <<Method(name, params)>>, st)

\* cursor.expect_semicolon at index c: the cursor after it, 0 when refused.
expect_semicolon(c) ==
    IF at(c) = Semicolon THEN c + 1
    ELSE IF at(c) \in {CloseBlock, None} THEN c
    ELSE 0

\* A field definition; pos is the index of its `=`, c the index after it.
field_definition(c, pos, name, ctor, st) ==
    IF name = "constructor" THEN Failed(General(CtorFieldMsg, pos))
    ELSE IF at(c) # ExprTok THEN Failed(Unexpected(c))
    ELSE IF expect_semicolon(c + 1) = 0 THEN Failed(Expected(c + 1))
    ELSE Parsed(expect_semicolon(c + 1), ctor, <<Field(name, "Expr")>>, st)

\* One pass of the loop, up to the field it gives; c is the cursor and ctor
\* the constructor recorded so far.
class_element(c, ctor) ==
    LET st == at(c).kind = "Static"
        c1 == IF st THEN c + 1 ELSE c
        c2 == IF at(c1).kind \in {"Get", "Set"} THEN c1 + 1 ELSE c1
        position == c2
        name == at(c2).name
        pos == c2 + 1
    IN  IF at(c) = None THEN Failed(AbruptEnd)
        ELSE IF at(c1) = None THEN Failed(AbruptEnd)
        ELSE IF at(c2) = None THEN Failed(AbruptEnd)
        ELSE IF at(c2).kind # "Identifier" THEN Failed(Expected(c2))
        ELSE IF duplicate_constructor(name, ctor)
        THEN Failed(General(MultipleMsg, position))
        ELSE IF at(pos) = None THEN Failed(AbruptEnd)
        ELSE IF at(pos) = OpenParen
        THEN method_definition(pos + 1, name, ctor, st)
        ELSE IF at(pos) = Assign
        THEN field_definition(pos + 1, pos, name, ctor, st)
        ELSE Failed(Expected(pos))

\* The push with the static flag ignored.
push_fields_any(r, fs) == fs \o r.field

\* fields.push(f), static_fields.push(f)
push_fields(r, fs) == IF r.static THEN fs ELSE fs \o r.field
push_static_fields(r, sfs) == IF r.static THEN sfs \o r.field ELSE sfs

\* The class bodies parsed: up to MaxElems elements, with or without the
\* closing `}` after them, in strict mode or not.
ClassInit ==
    /\ Default
    /\ op = NoCall
    /\ res = Ok
    /\ elems \in UNION {[1..n -> ClassElems] : n \in 0..MaxElems}
    /\ \E closed \in BOOLEAN :
         toks = Lex(elems) \o (IF closed THEN <<CloseBlock>> ELSE << >>)
    /\ cur = 1
    /\ frames = << >>
    /\ pst = "none"
    /\ NoLoop
    /\ brk = "None"
    /\ strict \in BOOLEAN
    /\ constructor = NoCtor
    /\ fields = << >>
    /\ static_fields = << >>
    /\ cret = NoRet
    /\ NoFmt

classRest ==
    <<trackerVars, op, res, toks, frames, pst, forInVars, brk, elems, strict,
      fmtVars>>

\* The first peek finds no token.
ClassAbruptEnd ==
    /\ cret = NoRet
    /\ cur = 1
    /\ peek = None
    /\ cret' = AbruptEnd
    /\ UNCHANGED <<cur, constructor, fields, static_fields, classRest>>

\* The body is immediately `}`.
ClassEmpty ==
    /\ cret = NoRet
    /\ cur = 1
    /\ peek = CloseBlock
    /\ cret' = ClassOk(NoCtor, fields, static_fields)
    /\ UNCHANGED <<cur, constructor, fields, static_fields, classRest>>

\* One pass of the loop: an element, then a look for the closing `}`.
ClassElement ==
    /\ cret = NoRet
    /\ IF cur = 1 THEN peek \notin {None, CloseBlock} ELSE TRUE
    /\ LET r == class_element(cur, constructor)
           fs == push_fields(r, fields)
           sfs == push_static_fields(r, static_fields)
       IN  IF r.ret # NoRet
           THEN /\ cret' = r.ret
                /\ UNCHANGED <<cur, constructor, fields, static_fields>>
           ELSE /\ cur' = r.cur
                /\ constructor' = r.constructor
                /\ fields' = fs
                /\ static_fields' = sfs
                /\ cret' = IF at(r.cur) = None THEN AbruptEnd
                           ELSE IF at(r.cur) = CloseBlock
                           THEN ClassOk(r.constructor, fs, sfs)
                           ELSE NoRet
    /\ UNCHANGED classRest

ClassNext ==
    \/ ClassAbruptEnd
    \/ ClassEmpty
    \/ ClassElement

SpecClass == ClassInit /\ [][ClassNext]_vars

\* The index of the name of the element that starts at index c.
NameAt(c) ==
    LET c1 == IF at(c).kind = "Static" THEN c + 1 ELSE c
    IN  IF at(c1).kind \in {"Get", "Set"} THEN c1 + 1 ELSE c1

\* A pass of the loop is about to parse an element named `constructor`.
AtConstructor == cret = NoRet /\ at(NameAt(cur)) = Identifier("constructor")

\* C18: an element named `constructor` met when a constructor is already
\* recorded is refused with an error at that name; an element named
\* `constructor` followed by `=` is refused with an error at the name or at
\* the `=`; neither gives a result. A parse that succeeds was given at most
\* one element named `constructor`.
C18_ConstructorMisuse ==
    /\ [][(AtConstructor /\ constructor # NoCtor) =>
            cret' = General(MultipleMsg, NameAt(cur))]_vars
    /\ [][(AtConstructor /\ at(NameAt(cur) + 1) = Assign) =>
            cret' = IF constructor # NoCtor
                    THEN General(MultipleMsg, NameAt(cur))
                    ELSE General(CtorFieldMsg, NameAt(cur) + 1)]_vars
    /\ [](cret.kind = "Ok" =>
            Cardinality({i \in 1..Len(elems) :
                            elems[i].name = "constructor"}) <= 1)

\* A second constructor was refused at its name.
C18_Witness ==
    /\ Len(elems) = 2
    /\ constructor # NoCtor
    /\ cret.kind = "Err"
    /\ cret.msg = MultipleMsg
    /\ cret.pos = NameAt(cur)
    /\ cret.value = << >>

\* The field an element stands for.
FieldOf(e) ==
    IF e.form = "field" THEN Field(e.name, "Expr")
    ELSE Method(e.name, IF e.form = "rest" THEN <<RestParam>> ELSE << >>)

\* The elements other than the constructor written with (st = TRUE) or
\* without `static`, in source order.
Written(st) ==
    LET sel == SelectSeq(elems,
                   LAMBDA e : e.static = st /\ e.name # "constructor")
    IN  [i \in 1..Len(sel) |-> FieldOf(sel[i])]

\* C19: a parse that succeeds returns in its non-static list exactly the
\* elements written without `static`, in its static list exactly those
\* written with it, each in source order, the constructor in neither; a
\* body that is immediately `}` gives no constructor and two empty lists.
C19_ListsInSourceOrder ==
    cret.kind = "Ok" =>
        /\ cret.value = <<constructor, Written(FALSE), Written(TRUE)>>
        /\ \A i \in 1..Len(elems) : elems[i].name = "constructor" =>
                constructor = FunctionDecl("constructor",
                    IF elems[i].form = "rest" THEN <<RestParam>> ELSE << >>)
        /\ (\A i \in 1..Len(elems) : elems[i].name # "constructor") =>
                constructor = NoCtor
        /\ elems = << >> => cret.value = <<NoCtor, << >>, << >> >>

\* A static and a non-static element went to their lists.
C19_Witness ==
    /\ cret.kind = "Ok"
    /\ Len(elems) = 2
    /\ Len(cret.value[2]) = 1
    /\ Len(cret.value[3]) = 1

\* ------------------------------------------------------------------------
\* parse and Display (specification SpecFmt)
\* ------------------------------------------------------------------------
\* The longest statement list of a generated block.
MaxStmts == 2

\* AST nodes: the statements of a Block, the one body of a loop.
BreakNode(label) == [kind |-> "Break", label |-> label, body |-> << >>]
CallNode == [kind |-> "Call", label |-> "None", body |-> << >>]
Block(statements) == [kind |-> "Block", label |-> "None", body |-> statements]
WhileLoop(body) == [kind |-> "WhileLoop", label |-> "None", body |-> <<body>>]
ForInLoop(body) == [kind |-> "ForInLoop", label |-> "None", body |-> <<body>>]

\* The script of break_node/tests.rs fmt.
Scenario ==
    <<Block(<<WhileLoop(Block(<<BreakNode("outer")>>)), CallNode>>),
      WhileLoop(Block(<<BreakNode("None")>>))>>

\* Statements without a statement inside, with such statements inside, and
\* with those inside.
Leaves == {BreakNode("None"), BreakNode("outer"), CallNode}
Around(S) ==
    S \cup {WhileLoop(b) : b \in S} \cup {ForInLoop(b) : b \in S}
        \cup {Block(ss) : ss \in UNION {[1..n -> S] : n \in 0..MaxStmts}}
Scripts == {<<st>> : st \in Around(Around(Leaves))} \cup {Scenario}

WhileHead == <<"while", "(", "true", ")">>
ForInHead == <<"for", "(", "x", "in", "o", ")">>
CallToks == <<"skipped_call", "(", ")", ";">>

\* Break's text: `break;` or `break <label>;`.
display_break(label) ==
    IF label = "None" THEN <<"break", ";">> ELSE <<"break", label, ";">>

\* ForInLoop::display around the text of its body.
display_for_in(body) == ForInHead \o <<"{">> \o body \o <<"}">>

\* A script as its author writes it, in the formatter's whitespace.
RECURSIVE Write(_)
RECURSIVE WriteList(_)
Write(n) ==
    CASE n.kind = "Break" -> display_break(n.label)
      [] n.kind = "Call" -> CallToks
      [] n.kind = "Block" -> <<"{">> \o WriteList(n.body) \o <<"}">>
      [] n.kind = "WhileLoop" -> WhileHead \o Write(n.body[1])
      [] n.kind = "ForInLoop" -> ForInHead \o Write(n.body[1])
WriteList(ss) ==
    IF ss = << >> THEN << >> ELSE Write(Head(ss)) \o WriteList(Tail(ss))

\* Node::display and StatementList's Display.
RECURSIVE display(_)
RECURSIVE display_list(_)
display(n) ==
    CASE n.kind = "Break" -> display_break(n.label)
      [] n.kind = "Call" -> CallToks
      [] n.kind = "Block" -> <<"{">> \o display_list(n.body) \o <<"}">>
      [] n.kind = "WhileLoop" -> WhileHead \o display(n.body[1])
      [] n.kind = "ForInLoop" -> display_for_in(display(n.body[1]))
display_list(ss) ==
    IF ss = << >> THEN << >> ELSE display(Head(ss)) \o display_list(Tail(ss))

\* The token at index i of the source, "EOF" past its end.
token(i) == IF i <= Len(source) THEN source[i] ELSE "EOF"
\* The tokens pat stand at index i.
expect(i, pat) ==
    /\ i + Len(pat) - 1 <= Len(source)
    /\ SubSeq(source, i, i + Len(pat) - 1) = pat

NoStatement == [ok |-> FALSE, node |-> CallNode, next |-> 0]
Statement(n, next) == [ok |-> TRUE, node |-> n, next |-> next]
NoStatements == [ok |-> FALSE, nodes |-> << >>, next |-> 0]

\* Statement::parse at index i, and StatementList::parse up to the token
\* stop.
RECURSIVE parse_statement(_)
RECURSIVE parse_statement_list(_, _)
parse_statement(i) ==
    CASE token(i) = "{" ->
            LET l == parse_statement_list(i + 1, "}")
            IN  IF l.ok THEN Statement(Block(l.nodes), l.next + 1)
                ELSE NoStatement
      [] token(i) = "while" ->
            IF expect(i, WhileHead)
            THEN LET b == parse_statement(i + Len(WhileHead))
                 IN  IF b.ok THEN Statement(WhileLoop(b.node), b.next)
                     ELSE NoStatement
            ELSE NoStatement
      [] token(i) = "for" ->
            IF expect(i, ForInHead)
            THEN LET b == parse_statement(i + Len(ForInHead))
                 IN  IF b.ok THEN Statement(ForInLoop(b.node), b.next)
                     ELSE NoStatement
            ELSE NoStatement
      [] token(i) = "break" ->
            IF token(i + 1) = ";" THEN Statement(BreakNode("None"), i + 2)
            ELSE IF token(i + 1) = "outer" /\ token(i + 2) = ";"
            THEN Statement(BreakNode(token(i + 1)), i + 3)
            ELSE NoStatement
      [] token(i) = "skipped_call" ->
            IF expect(i, CallToks)
            THEN Statement(CallNode, i + Len(CallToks))
            ELSE NoStatement
      [] OTHER -> NoStatement
parse_statement_list(i, stop) ==
    IF token(i) = stop THEN [ok |-> TRUE, nodes |-> << >>, next |-> i]
    ELSE LET st == parse_statement(i)
         IN  IF ~st.ok THEN NoStatements
             ELSE LET r == parse_statement_list(st.next, stop)
                  IN  [ok |-> r.ok, nodes |-> <<st.node>> \o r.nodes,
                       next |-> r.next]

\* A valid script, not parsed yet.
FmtInit ==
    /\ Default
    /\ op = NoCall
    /\ res = Ok
    /\ NoParse
    /\ NoLoop
    /\ brk = "None"
    /\ NoClass
    /\ source \in {WriteList(sc) : sc \in Scripts}
    /\ ast = [done |-> FALSE, ok |-> FALSE, nodes |-> << >>]
    /\ shown = [done |-> FALSE, toks |-> << >>]

fmtRest == <<trackerVars, op, res, parserVars, forInVars, brk, classVars>>

\* parse(source, false)
FmtParse ==
    /\ ~ast.done
    /\ LET l == parse_statement_list(1, "EOF")
       IN  ast' = [done |-> TRUE, ok |-> l.ok, nodes |-> l.nodes]
    /\ UNCHANGED <<source, shown, fmtRest>>

\* format!("{}", ast)
FmtDisplay ==
    /\ ast.done
    /\ ast.ok
    /\ ~shown.done
    /\ shown' = [done |-> TRUE, toks |-> display_list(ast.nodes)]
    /\ UNCHANGED <<source, ast, fmtRest>>

FmtNext ==
    \/ FmtParse
    \/ FmtDisplay

SpecFmt == FmtInit /\ [][FmtNext]_vars

\* C20: every valid script parses, and formatting the result gives the
\* script back.
C20_RoundTrip ==
    /\ ast.done => ast.ok
    /\ shown.done => shown.toks = source

\* ------------------------------------------------------------------------
\* C21: the constructor a successful ClassElementList parse returns was
\* written as a non-static method: no element written with `static` is
\* returned as the constructor.
C21_ConstructorNotStatic ==
    (cret.kind = "Ok" /\ cret.value[1] # NoCtor) =>
        \A i \in 1..Len(elems) : elems[i].name = "constructor" =>
            /\ ~elems[i].static
            /\ elems[i].form \in {"method", "rest"}

\* ------------------------------------------------------------------------
\* C22: a body run that leaves the interpreter state Error is the last one:
\* after it the iterator is not advanced and the body is not run again.
C22_ErrorStops ==
    \A i \in 1..Len(visited) : visited[i].state = ErrorState =>
        /\ i = Len(visited)
        /\ iter = i

\* ------------------------------------------------------------------------
\* The loop is about to bind its next key, with a legal head of one of the
\* given forms.
BindsWith(forms) ==
    /\ pc = "loop"
    /\ iter < loop.nkeys
    /\ loop.variable \in forms
    /\ loop.count = 1
    /\ ~loop.init

LevelLex(k) == IF k = Len(stack) + 1 THEN lex ELSE LexAt(k)
LevelVar(k) == IF k = Len(stack) + 1 THEN var ELSE VarAt(k)

C26_FailedInsertNoChange ==
    [][(op'.call \in {"insert_var_name", "insert_lex_name"}
            /\ res'.kind = "Err") => UNCHANGED trackerVars]_vars

====
